---- MODULE Spec2Model ----
(***************************************************************************)
(* Model of the postfix_policy crate (src/src/lib.rs): the response        *)
(* encoder serialize_response, the connection engine handle_connection     *)
(* and the test helper handle_connection_response over DummySocket.        *)
(*                                                                         *)
(* Bytes are one-character strings; a byte sequence (Vec<u8>, &[u8]) is a  *)
(* sequence of them.                                                       *)
(***************************************************************************)
EXTENDS Naturals, Sequences, FiniteSets

\* ------------------------------------------------------------------ bounds

\* Longest input handle_connection_response is given for its DummySocket.
MaxInput == 7

\* Longest stream a peer sends on a socket of the caller's own, which may
\* deliver it in pieces and may fail.
MaxStream == 4

\* Capacity of the BufReader wrapped around the socket.
BufCap == 3

\* Longest payload of a PolicyResponse given to serialize_response.
MaxPayload == 2

\* The longest stream of a socket that reports ErrorKind::Interrupted, and how
\* often it does so during one connection.
MaxRetryStream == 3
MaxInterrupts == 1

\* ------------------------------------------------------------------- bytes

NL == "\n"
EQ == "="
SP == " "

\* The bytes a peer may send.
InputBytes == {"a", EQ, NL}

\* The bytes a payload may hold.
PayloadBytes == {"a", SP, NL}

Min(a, b) == IF a < b THEN a ELSE b

SeqsUpTo(S, n) == UNION {[1..k -> S] : k \in 0..n}

Inputs == SeqsUpTo(InputBytes, MaxInput)

Streams == SeqsUpTo(InputBytes, MaxStream)

Payloads == SeqsUpTo(PayloadBytes, MaxPayload)

\* ---------------------------------------------------------- PolicyResponse

\* The variants of enum PolicyResponse that carry no Vec<u8>.
BareVariants == {"Ok", "Dunno"}

\* The variants that carry a Vec<u8>.
PayloadVariants ==
    {"Reject", "Defer", "DeferIfReject", "DeferIfPermit", "Bcc", "Discard",
     "Hold", "Redirect", "Info", "Warn"}

Resp(v, p) == [variant |-> v, payload |-> p]

\* Every PolicyResponse with a payload of at most MaxPayload bytes.
PolicyResponse ==
    {Resp(v, <<>>) : v \in BareVariants}
        \cup {Resp(v, p) : v \in PayloadVariants, p \in Payloads}

NoResponse == Resp("", <<>>)

\* The `action` byte string the match of serialize_response selects.
ActionOf(resp) ==
    CASE resp.variant = "Ok" -> <<"O", "K">>
      [] resp.variant = "Reject" -> <<"R", "E", "J", "E", "C", "T">>
      [] resp.variant = "Defer" -> <<"D", "E", "F", "E", "R">>
      [] resp.variant = "DeferIfReject" ->
            <<"D", "E", "F", "E", "R", "_", "I", "F", "_",
              "R", "E", "J", "E", "C", "T">>
      [] resp.variant = "DeferIfPermit" ->
            <<"D", "E", "F", "E", "R", "_", "I", "F", "_",
              "P", "E", "R", "M", "I", "T">>
      [] resp.variant = "Bcc" -> <<"B", "C", "C">>
      [] resp.variant = "Discard" -> <<"D", "I", "S", "C", "A", "R", "D">>
      [] resp.variant = "Dunno" -> <<"D", "U", "N", "N", "O">>
      [] resp.variant = "Hold" -> <<"H", "O", "L", "D">>
      [] resp.variant = "Redirect" ->
            <<"R", "E", "D", "I", "R", "E", "C", "T">>
      [] resp.variant = "Info" -> <<"I", "N", "F", "O">>
      [] resp.variant = "Warn" -> <<"W", "A", "R", "N">>

\* The `message` the match of serialize_response binds: empty for the
\* variants without a payload.
MessageOf(resp) ==
    IF resp.variant \in BareVariants THEN <<>> ELSE resp.payload

\* Mutant: the separator is pushed whether or not there is a message.
serialize_response_always_space(resp) ==
    ActionOf(resp) \o <<SP>> \o MessageOf(resp)

serialize_response(resp) ==
    IF MessageOf(resp) # <<>>
        THEN ActionOf(resp) \o <<SP>> \o MessageOf(resp)
        ELSE ActionOf(resp)

\* ------------------------------------------------------------------- state

VARIABLES
    caller,     \* who drives the engine: handle_connection on a socket of the
                \* caller's, or handle_connection_response on a DummySocket
    input,      \* the bytes the peer sends (DummySocket.input)
    inpos,      \* how many of them the socket has handed out (Cursor position)
    output,     \* the bytes written to the socket (DummySocket.output)
    rbuf,       \* the bytes held unread in the BufReader `reader`
    buf,        \* `buf`, the line of the current loop iteration
    handler,    \* `handler`, the current PolicyRequestHandler instance
    nhandlers,  \* how many instances HandlerType::new has built
    pending,    \* `result`, the PolicyResponse being sent
    encoded,    \* the Vec serialize_response returned for it
    pc,         \* position in handle_connection / handle_connection_response
    ret,        \* what handle_connection returned
    hret,       \* what handle_connection_response returned
    trace       \* history: the calls made on the handler and on the socket

vars ==
    <<caller, input, inpos, output, rbuf, buf, handler, nhandlers, pending,
      encoded, pc, ret, hret, trace>>

\* The error values a handler may report (ErrorType).
HandlerErrors == {"e1", "e2"}

\* The decisions the handler under the engine chooses among.
HandlerResponses ==
    {Resp("Reject", <<>>), Resp("Defer", <<"a">>)}

Running == [kind |-> "Running", line |-> <<>>, err |-> ""]
RetOk == [kind |-> "Ok", line |-> <<>>, err |-> ""]
IoError(e) == [kind |-> "IoError", line |-> <<>>, err |-> e]
ProtocolError(line) == [kind |-> "ProtocolError", line |-> line, err |-> ""]
HandlerError(e) == [kind |-> "HandlerError", line |-> <<>>, err |-> e]

NoHRet == [kind |-> "Running", bytes |-> <<>>, line |-> <<>>, err |-> ""]

\* One call on the handler or on the socket, as recorded in `trace`.
Event(op, id, name, value, err, resp) ==
    [op |-> op, id |-> id, name |-> name, value |-> value, err |-> err,
     resp |-> resp]

\* ------------------------------------------------------- the line decoder

\* buf.iter().position(|&c| c == b'=') is Some(_).
HasEq(b) == \E i \in 1..Len(b) : b[i] = EQ

\* Mutant: the line is split at its last `=`.
LastPos(b) ==
    (CHOOSE i \in 1..Len(b) :
        b[i] = EQ /\ \A j \in (i + 1)..Len(b) : b[j] # EQ) - 1

\* The `pos` of Some(pos): the number of bytes before the first `=`.
Pos(b) ==
    (CHOOSE i \in 1..Len(b) : b[i] = EQ /\ \A j \in 1..(i - 1) : b[j] # EQ) - 1

\* buf.split_at(pos): `left`, and `right` which starts with the `=`.
Left(b) == SubSeq(b, 1, Pos(b))

Right(b) == SubSeq(b, Pos(b) + 1, Len(b))

\* Mutant: an empty name is let through.
Malformed_name_unchecked(b) ==
    IF HasEq(b) THEN Len(Right(b)) < 2 ELSE TRUE

\* Mutant: the length of `right` is not looked at.
Malformed_length_unchecked(b) ==
    IF HasEq(b) THEN Left(b) = <<>> ELSE TRUE

\* Mutant: a line whose value is empty is refused.
Malformed_empty_value_refused(b) ==
    IF HasEq(b) THEN (Left(b) = <<>> \/ Len(Right(b)) < 3) ELSE TRUE

\* The line is answered with ProtocolError: position() is None, or
\* left.is_empty() || right.len() < 2.
Malformed(b) ==
    IF HasEq(b) THEN (Left(b) = <<>> \/ Len(Right(b)) < 2) ELSE TRUE

\* right = &right[1..right.len() - 1]
Value(b) == SubSeq(Right(b), 2, Len(Right(b)) - 1)

\* Mutant: the payload of the ProtocolError loses the line terminator.
ErrorLine_trimmed(b) ==
    IF b # <<>> /\ b[Len(b)] = NL THEN SubSeq(b, 1, Len(b) - 1) ELSE b

\* The payload of ProtocolError(buf).
ErrorLine(b) == b

\* buf == b"\n"
IsBlank(b) == b = <<NL>>

\* --------------------------------------------------------------- the socket

ViaHelper == caller = "handle_connection_response"

Remaining == Len(input) - inpos

\* What one read on the socket may return into a buffer of BufCap bytes.
\* DummySocket reads through a Cursor: as much as fits.  Any other socket
\* may return fewer bytes, and 0 only at the end of the stream.
ReadSizes ==
    IF Remaining = 0 THEN {0}
    ELSE IF ViaHelper THEN {Min(BufCap, Remaining)}
    ELSE 1..Min(BufCap, Remaining)

\* The index of the first NL of b, or 0.
FirstNL(b) ==
    IF \E i \in 1..Len(b) : b[i] = NL
        THEN CHOOSE i \in 1..Len(b) : b[i] = NL /\ \A j \in 1..(i - 1) : b[j] # NL
        ELSE 0

Log(e) == trace' = Append(trace, e)

SockEvent(op, bytes, err) == Event(op, 0, <<>>, bytes, err, NoResponse)

\* ------------------------------------------------------------------ actions

Init ==
    /\ \/ caller = "handle_connection_response" /\ input \in Inputs
       \/ caller = "handle_connection" /\ input \in Streams
    /\ inpos = 0
    /\ output = <<>>
    /\ rbuf = <<>>
    /\ buf = <<>>
    /\ handler = [id |-> 0, attrs |-> <<>>, live |-> FALSE]
    /\ nhandlers = 0
    /\ pending = NoResponse
    /\ encoded = <<>>
    /\ pc = "new"
    /\ ret = Running
    /\ hret = NoHRet
    /\ trace = <<>>

\* Mutant: the instance of the previous request is kept for the next one.
HandlerNew_reused ==
    /\ pc = "new"
    /\ nhandlers' = IF nhandlers = 0 THEN 1 ELSE nhandlers
    /\ handler' = [id |-> nhandlers', attrs |-> handler.attrs, live |-> TRUE]
    /\ buf' = <<>>
    /\ pc' = "read"
    /\ Log(Event("new", nhandlers', <<>>, <<>>, "", NoResponse))
    /\ UNCHANGED <<caller, input, inpos, output, rbuf, pending, encoded, ret, hret>>

\* handler = HandlerType::new(ctx), on entry and after each response; the
\* loop then starts an iteration with an empty `buf`.
HandlerNew ==
    /\ pc = "new"
    /\ nhandlers' = nhandlers + 1
    /\ handler' = [id |-> nhandlers', attrs |-> <<>>, live |-> TRUE]
    /\ buf' = <<>>
    /\ pc' = "read"
    /\ Log(Event("new", nhandlers', <<>>, <<>>, "", NoResponse))
    /\ UNCHANGED <<caller, input, inpos, output, rbuf, pending, encoded, ret, hret>>

\* read_until: the BufReader is empty and reads the socket.  A read of 0
\* bytes is the end of the stream: read_until returns what `buf` holds.
FillBuf ==
    /\ pc = "read"
    /\ rbuf = <<>>
    /\ \E n \in ReadSizes :
        /\ rbuf' = SubSeq(input, inpos + 1, inpos + n)
        /\ inpos' = inpos + n
        /\ pc' = IF n = 0 THEN "line" ELSE "read"
        /\ Log(SockEvent("read", rbuf', ""))
    /\ UNCHANGED <<caller, input, output, buf, handler, nhandlers, pending,
                   encoded, ret, hret>>

\* read_until: the bytes up to and including the first NL go from the
\* BufReader to `buf`; without a NL all of them go, and the loop goes on.
TakeLine ==
    /\ pc = "read"
    /\ rbuf # <<>>
    /\ LET k == FirstNL(rbuf)
           used == IF k = 0 THEN Len(rbuf) ELSE k
       IN /\ buf' = buf \o SubSeq(rbuf, 1, used)
          /\ rbuf' = SubSeq(rbuf, used + 1, Len(rbuf))
          /\ pc' = IF k = 0 THEN "read" ELSE "line"
    /\ UNCHANGED <<caller, input, inpos, output, handler, nhandlers, pending,
                   encoded, ret, hret, trace>>

\* read_until(..)?: the read on the socket fails.
ReadFail ==
    /\ pc = "read"
    /\ rbuf = <<>>
    /\ ~ViaHelper
    /\ ret' = IoError("io")
    /\ pc' = "returned"
    /\ Log(SockEvent("read", <<>>, "io"))
    /\ UNCHANGED <<caller, input, inpos, output, rbuf, buf, handler, nhandlers,
                   pending, encoded, hret>>

\* Mutant: the end of the stream is reported as a malformed line.
EndOfStream_as_error ==
    /\ pc = "line"
    /\ buf = <<>>
    /\ ret' = ProtocolError(buf)
    /\ pc' = "returned"
    /\ UNCHANGED <<caller, input, inpos, output, rbuf, buf, handler, nhandlers,
                   pending, encoded, hret, trace>>

\* Mutant: a request cut short by the end of the stream is a malformed one.
EndOfStream_unfinished_refused ==
    /\ pc = "line"
    /\ buf = <<>>
    /\ ret' = IF handler.attrs = <<>> THEN RetOk ELSE ProtocolError(buf)
    /\ pc' = "returned"
    /\ UNCHANGED <<caller, input, inpos, output, rbuf, buf, handler, nhandlers,
                   pending, encoded, hret, trace>>

\* Mutant: at the end of the stream the loop neither returns nor reads on.
EndOfStream_stuck ==
    /\ pc = "line"
    /\ buf = <<>>
    /\ pc' = "eof"
    /\ UNCHANGED <<caller, input, inpos, output, rbuf, buf, handler, nhandlers,
                   pending, encoded, ret, hret, trace>>

\* read_until returned 0: return Ok(()).
EndOfStream ==
    /\ pc = "line"
    /\ buf = <<>>
    /\ ret' = RetOk
    /\ pc' = "returned"
    /\ UNCHANGED <<caller, input, inpos, output, rbuf, buf, handler, nhandlers,
                   pending, encoded, hret, trace>>

\* buf == b"\n" and handler.response() is Ok(result).
ResponseOk ==
    /\ pc = "line"
    /\ IsBlank(buf)
    /\ \E r \in HandlerResponses :
        /\ pending' = r
        /\ Log(Event("response", handler.id, <<>>, <<>>, "", r))
    /\ handler' = [handler EXCEPT !.live = FALSE]
    /\ pc' = "write_action"
    /\ UNCHANGED <<caller, input, inpos, output, rbuf, buf, nhandlers, encoded,
                   ret, hret>>

\* Mutant: the error of response() is answered with an empty action and
\* the connection goes on.
ResponseErr_swallowed ==
    /\ pc = "line"
    /\ IsBlank(buf)
    /\ \E e \in HandlerErrors :
        Log(Event("response", handler.id, <<>>, <<>>, e, NoResponse))
    /\ handler' = [handler EXCEPT !.live = FALSE]
    /\ pc' = "write_term"
    /\ output' = output \o <<"a", "c", "t", "i", "o", "n", "=">>
    /\ UNCHANGED <<caller, input, inpos, rbuf, buf, nhandlers, pending,
                   encoded, ret, hret>>

\* buf == b"\n" and handler.response() is Err(e).
ResponseErr ==
    /\ pc = "line"
    /\ IsBlank(buf)
    /\ \E e \in HandlerErrors :
        /\ ret' = HandlerError(e)
        /\ Log(Event("response", handler.id, <<>>, <<>>, e, NoResponse))
    /\ handler' = [handler EXCEPT !.live = FALSE]
    /\ pc' = "returned"
    /\ UNCHANGED <<caller, input, inpos, output, rbuf, buf, nhandlers, pending,
                   encoded, hret>>

\* Mutant: the malformed line is answered on the wire before the return.
ProtocolFail_replying ==
    /\ pc = "line"
    /\ buf # <<>>
    /\ ~IsBlank(buf)
    /\ Malformed(buf)
    /\ ret' = ProtocolError(ErrorLine(buf))
    /\ output' = output \o <<"a", "c", "t", "i", "o", "n", "=", NL, NL>>
    /\ pc' = "returned"
    /\ UNCHANGED <<caller, input, inpos, rbuf, buf, handler, nhandlers,
                   pending, encoded, hret, trace>>

\* A line that is not blank and does not decode: ProtocolError(buf).
ProtocolFail ==
    /\ pc = "line"
    /\ buf # <<>>
    /\ ~IsBlank(buf)
    /\ Malformed(buf)
    /\ ret' = ProtocolError(ErrorLine(buf))
    /\ pc' = "returned"
    /\ UNCHANGED <<caller, input, inpos, output, rbuf, buf, handler, nhandlers,
                   pending, encoded, hret, trace>>

\* Mutant: the socket is flushed after every attribute line.
AttributeOk_flushing ==
    /\ pc = "line"
    /\ buf # <<>>
    /\ ~IsBlank(buf)
    /\ ~Malformed(buf)
    /\ handler' =
        [handler EXCEPT !.attrs = Append(@, <<Left(buf), Value(buf)>>)]
    /\ trace' = trace \o
        <<Event("attribute", handler.id, Left(buf), Value(buf), "", NoResponse),
          SockEvent("flush", <<>>, "")>>
    /\ buf' = <<>>
    /\ pc' = "read"
    /\ UNCHANGED <<caller, input, inpos, output, rbuf, nhandlers, pending,
                   encoded, ret, hret>>

\* handler.attribute(left, right) returns None.
AttributeOk ==
    /\ pc = "line"
    /\ buf # <<>>
    /\ ~IsBlank(buf)
    /\ ~Malformed(buf)
    /\ handler' =
        [handler EXCEPT !.attrs = Append(@, <<Left(buf), Value(buf)>>)]
    /\ Log(Event("attribute", handler.id, Left(buf), Value(buf), "", NoResponse))
    /\ buf' = <<>>
    /\ pc' = "read"
    /\ UNCHANGED <<caller, input, inpos, output, rbuf, nhandlers, pending,
                   encoded, ret, hret>>

\* Mutant: the error of attribute() is dropped and the loop goes on.
AttributeErr_ignored ==
    /\ pc = "line"
    /\ buf # <<>>
    /\ ~IsBlank(buf)
    /\ ~Malformed(buf)
    /\ handler' =
        [handler EXCEPT !.attrs = Append(@, <<Left(buf), Value(buf)>>)]
    /\ \E e \in HandlerErrors :
        Log(Event("attribute", handler.id, Left(buf), Value(buf), e, NoResponse))
    /\ buf' = <<>>
    /\ pc' = "read"
    /\ UNCHANGED <<caller, input, inpos, output, rbuf, nhandlers, pending,
                   encoded, ret, hret>>

\* handler.attribute(left, right) returns Some(error).
AttributeErr ==
    /\ pc = "line"
    /\ buf # <<>>
    /\ ~IsBlank(buf)
    /\ ~Malformed(buf)
    /\ handler' =
        [handler EXCEPT !.attrs = Append(@, <<Left(buf), Value(buf)>>)]
    /\ \E e \in HandlerErrors :
        /\ ret' = HandlerError(e)
        /\ Log(Event("attribute", handler.id, Left(buf), Value(buf), e, NoResponse))
    /\ pc' = "returned"
    /\ UNCHANGED <<caller, input, inpos, output, rbuf, buf, nhandlers, pending,
                   encoded, hret>>

\* socket.write_all(bytes)? succeeds: every byte reaches the socket.
WriteAll(bytes, next) ==
    /\ output' = output \o bytes
    /\ pc' = next
    /\ Log(SockEvent("write", bytes, ""))

ActionPrefix == <<"a", "c", "t", "i", "o", "n", "=">>

\* Mutant: the action line is ended, the blank line after it is not sent.
Terminator_single == <<NL>>

Terminator == <<NL, NL>>

\* socket.write_all(b"action=")?
WriteAction ==
    /\ pc = "write_action"
    /\ WriteAll(ActionPrefix, "serialize")
    /\ UNCHANGED <<caller, input, inpos, rbuf, buf, handler, nhandlers, pending,
                   encoded, ret, hret>>

\* serialize_response(result)
Serialize ==
    /\ pc = "serialize"
    /\ encoded' = serialize_response(pending)
    /\ pc' = "write_resp"
    /\ UNCHANGED <<caller, input, inpos, output, rbuf, buf, handler, nhandlers,
                   pending, ret, hret, trace>>

\* socket.write_all(&serialize_response(result))?
WriteResp ==
    /\ pc = "write_resp"
    /\ WriteAll(encoded, "write_term")
    /\ UNCHANGED <<caller, input, inpos, rbuf, buf, handler, nhandlers, pending,
                   encoded, ret, hret>>

\* socket.write_all(b"\n\n")?
WriteTerm ==
    /\ pc = "write_term"
    /\ WriteAll(Terminator, "flush")
    /\ UNCHANGED <<caller, input, inpos, rbuf, buf, handler, nhandlers, pending,
                   encoded, ret, hret>>

\* The bytes the write_all at `pc` is to write.
ToWrite ==
    CASE pc = "write_action" -> ActionPrefix
      [] pc = "write_resp" -> encoded
      [] pc = "write_term" -> Terminator
      [] OTHER -> <<>>

\* How many bytes of a write_all that fails reached the socket before the
\* failure: none, or all but the last (the two ends of what may happen).
PartialWrites(bytes) ==
    {k \in {0, Len(bytes) - 1} : 0 <= k /\ k < Len(bytes)}

\* Mutant: the error of a failed write_all is dropped and the loop goes on.
WriteFail_unreported ==
    /\ pc \in {"write_action", "write_resp", "write_term"}
    /\ ~ViaHelper
    /\ \E k \in PartialWrites(ToWrite) :
        /\ output' = output \o SubSeq(ToWrite, 1, k)
        /\ Log(SockEvent("write", SubSeq(ToWrite, 1, k), "io"))
    /\ pc' = (CASE pc = "write_action" -> "serialize"
               [] pc = "write_resp" -> "write_term"
               [] OTHER -> "flush")
    /\ UNCHANGED <<caller, input, inpos, rbuf, buf, handler, nhandlers, pending,
                   encoded, ret, hret>>

\* One of the three write_all(..)? fails: some of its bytes, not all, were
\* written before the failure.
WriteFail ==
    /\ pc \in {"write_action", "write_resp", "write_term"}
    /\ ~ViaHelper
    /\ \E k \in PartialWrites(ToWrite) :
        /\ output' = output \o SubSeq(ToWrite, 1, k)
        /\ Log(SockEvent("write", SubSeq(ToWrite, 1, k), "io"))
    /\ ret' = IoError("io")
    /\ pc' = "returned"
    /\ UNCHANGED <<caller, input, inpos, rbuf, buf, handler, nhandlers, pending,
                   encoded, hret>>

\* Mutant: the response is left unflushed.
Flush_skipped ==
    /\ pc = "flush"
    /\ pc' = "new"
    /\ UNCHANGED <<caller, input, inpos, output, rbuf, buf, handler, nhandlers,
                   pending, encoded, ret, hret, trace>>

\* socket.flush()? succeeds; handler = HandlerType::new(ctx) is next.
Flush ==
    /\ pc = "flush"
    /\ pc' = "new"
    /\ Log(SockEvent("flush", <<>>, ""))
    /\ UNCHANGED <<caller, input, inpos, output, rbuf, buf, handler, nhandlers,
                   pending, encoded, ret, hret>>

\* socket.flush()? fails.
FlushFail ==
    /\ pc = "flush"
    /\ ~ViaHelper
    /\ ret' = IoError("io")
    /\ pc' = "returned"
    /\ Log(SockEvent("flush", <<>>, "io"))
    /\ UNCHANGED <<caller, input, inpos, output, rbuf, buf, handler, nhandlers,
                   pending, encoded, hret>>

\* Mutant: the output is handed back whatever handle_connection returned.
HelperResult_always_output ==
    [kind |-> "Ok", bytes |-> output, line |-> <<>>, err |-> ""]

\* handle_connection(..)?; Ok(socket.get_output())
HelperResult ==
    IF ret.kind = "Ok"
        THEN [kind |-> "Ok", bytes |-> output, line |-> <<>>, err |-> ""]
        ELSE [kind |-> ret.kind, bytes |-> <<>>, line |-> ret.line,
              err |-> ret.err]

\* handle_connection_response returns.
HelperReturn ==
    /\ pc = "returned"
    /\ ViaHelper
    /\ hret' = HelperResult
    /\ pc' = "done"
    /\ UNCHANGED <<caller, input, inpos, output, rbuf, buf, handler, nhandlers,
                   pending, encoded, ret, trace>>

Next ==
    \/ HandlerNew
    \/ FillBuf
    \/ TakeLine
    \/ ReadFail
    \/ EndOfStream
    \/ ResponseOk
    \/ ResponseErr
    \/ ProtocolFail
    \/ AttributeOk
    \/ AttributeErr
    \/ WriteAction
    \/ Serialize
    \/ WriteResp
    \/ WriteTerm
    \/ WriteFail
    \/ Flush
    \/ FlushFail
    \/ HelperReturn

Spec == Init /\ [][Next]_vars

\* handle_connection is sequential code: when the handler's methods and the
\* socket's calls return, the statement it is at is executed.
FairSpec == Spec /\ WF_vars(Next)

\* serialize_response on its own: every PolicyResponse, encoded once.
InitSerialize ==
    /\ caller = "handle_connection"
    /\ input = <<>>
    /\ inpos = 0
    /\ output = <<>>
    /\ rbuf = <<>>
    /\ buf = <<>>
    /\ handler = [id |-> 0, attrs |-> <<>>, live |-> FALSE]
    /\ nhandlers = 0
    /\ pending \in PolicyResponse
    /\ encoded = <<>>
    /\ pc = "serialize"
    /\ ret = Running
    /\ hret = NoHRet
    /\ trace = <<>>

NextSerialize == Serialize

SpecSerialize == InitSerialize /\ [][NextSerialize]_vars

\* ------------------------------------ a socket that reports Interrupted
\*
\* read_until and write_all are std's: both call the socket again when it
\* reports ErrorKind::Interrupted (BufRead::read_until "will ignore all
\* instances of ErrorKind::Interrupted", Write::write_all goes on "until
\* there is no more data to be written or an error of non-Interrupted kind
\* is returned").  flush() is called as it is.

\* How often the socket has reported Interrupted so far.
Interrupts ==
    Cardinality({i \in 1..Len(trace) : trace[i].err = "interrupted"})

\* read_until: the read on the socket reports Interrupted and is called
\* again; nothing was read.
ReadInterrupted ==
    /\ pc = "read"
    /\ rbuf = <<>>
    /\ ~ViaHelper
    /\ Interrupts < MaxInterrupts
    /\ Log(SockEvent("read", <<>>, "interrupted"))
    /\ UNCHANGED <<caller, input, inpos, output, rbuf, buf, handler, nhandlers,
                   pending, encoded, pc, ret, hret>>

\* write_all: a write on the socket reports Interrupted and is called again;
\* nothing was written.
WriteInterrupted ==
    /\ pc \in {"write_action", "write_resp", "write_term"}
    /\ ~ViaHelper
    /\ Interrupts < MaxInterrupts
    /\ Log(SockEvent("write", <<>>, "interrupted"))
    /\ UNCHANGED <<caller, input, inpos, output, rbuf, buf, handler, nhandlers,
                   pending, encoded, pc, ret, hret>>

\* socket.flush()? reports Interrupted: `?` returns it like any other error.
FlushInterrupted ==
    /\ pc = "flush"
    /\ ~ViaHelper
    /\ ret' = IoError("interrupted")
    /\ pc' = "returned"
    /\ Log(SockEvent("flush", <<>>, "interrupted"))
    /\ UNCHANGED <<caller, input, inpos, output, rbuf, buf, handler, nhandlers,
                   pending, encoded, hret>>

RetryStreams == SeqsUpTo(InputBytes, MaxRetryStream)

InitRetry ==
    /\ caller \in {"handle_connection_response", "handle_connection"}
    /\ input \in RetryStreams
    /\ inpos = 0
    /\ output = <<>>
    /\ rbuf = <<>>
    /\ buf = <<>>
    /\ handler = [id |-> 0, attrs |-> <<>>, live |-> FALSE]
    /\ nhandlers = 0
    /\ pending = NoResponse
    /\ encoded = <<>>
    /\ pc = "new"
    /\ ret = Running
    /\ hret = NoHRet
    /\ trace = <<>>

NextRetry ==
    \/ Next
    \/ ReadInterrupted
    \/ WriteInterrupted
    \/ FlushInterrupted

SpecRetry == InitRetry /\ [][NextRetry]_vars

\* ------------------------------------------------- what the claims speak of

\* handle_connection has returned.
Returned == ret.kind # "Running"

\* The lines of a byte stream, each with its terminator; the last one has
\* none when the stream does not end with NL.
RECURSIVE LinesOf(_)
LinesOf(s) ==
    IF s = <<>> THEN <<>>
    ELSE IF \E i \in 1..Len(s) : s[i] = NL
        THEN LET k == CHOOSE i \in 1..Len(s) :
                        s[i] = NL /\ \A j \in 1..(i - 1) : s[j] # NL
             IN <<SubSeq(s, 1, k)>> \o LinesOf(SubSeq(s, k + 1, Len(s)))
        ELSE <<s>>

BlankLine == <<"\n">>

\* A line `name=value\n` with a non-empty name.
IsAttributeLine(l) ==
    /\ Len(l) >= 3
    /\ l[Len(l)] = "\n"
    /\ l[1] # "="
    /\ \E i \in 2..(Len(l) - 1) : l[i] = "="

\* The index of the first `=` of an attribute line.
FirstEqOf(l) == CHOOSE i \in 1..Len(l) : l[i] = "=" /\ \A j \in 1..(i - 1) : l[j] # "="

\* The (name, value) pair an attribute line stands for.
AttributeOf(l) ==
    <<SubSeq(l, 1, FirstEqOf(l) - 1), SubSeq(l, FirstEqOf(l) + 1, Len(l) - 1)>>

\* The indices of the blank lines among the lines ls.
BlankIndices(ls) == {j \in 1..Len(ls) : ls[j] = BlankLine}

\* The attribute pairs of the lines ls that lie between the (i-1)-th and the
\* i-th blank line.
RECURSIVE AttributesOfRequest(_, _)
AttributesOfRequest(ls, i) ==
    IF ls = <<>> THEN <<>>
    ELSE IF ls[1] = BlankLine
        THEN (IF i = 1 THEN <<>> ELSE AttributesOfRequest(Tail(ls), i - 1))
    ELSE IF i = 1
        THEN <<AttributeOf(ls[1])>> \o AttributesOfRequest(Tail(ls), 1)
    ELSE AttributesOfRequest(Tail(ls), i)

\* The attribute pairs of the i-th request of the stream s.
RequestAttributes(s, i) == AttributesOfRequest(LinesOf(s), i)

\* The stream is k >= 0 requests, each of them attribute lines and then a
\* blank line.
ValidRequests(s) ==
    LET ls == LinesOf(s)
    IN /\ \A j \in 1..Len(ls) : ls[j] = BlankLine \/ IsAttributeLine(ls[j])
       /\ ls # <<>> => ls[Len(ls)] = BlankLine

NumRequests(s) == Cardinality(BlankIndices(LinesOf(s)))

\* The decisions the response() calls of a history returned, in order.
RECURSIVE DecisionsOf(_)
DecisionsOf(t) ==
    IF t = <<>> THEN <<>>
    ELSE (IF t[1].op = "response" /\ t[1].err = "" THEN <<t[1].resp>> ELSE <<>>)
            \o DecisionsOf(Tail(t))

Decisions == DecisionsOf(trace)

\* The places of the history where `op` was called.
Calls(op) == {i \in 1..Len(trace) : trace[i].op = op}

\* A handler method reported an error.
HandlerFailed ==
    \E i \in 1..Len(trace) :
        trace[i].op \in {"attribute", "response"} /\ trace[i].err # ""

\* The frame of one decision on the wire.
FrameOf(d) ==
    <<"a", "c", "t", "i", "o", "n", "=">> \o serialize_response(d) \o <<"\n", "\n">>

RECURSIVE FramesOf(_)
FramesOf(ds) ==
    IF ds = <<>> THEN <<>> ELSE FrameOf(ds[1]) \o FramesOf(Tail(ds))

\* Every byte the write calls of the history put on the socket.
RECURSIVE Written(_)
Written(t) ==
    IF t = <<>> THEN <<>>
    ELSE (IF t[1].op = "write" THEN t[1].value ELSE <<>>) \o Written(Tail(t))

\* The k-th smallest member of a set of numbers.
Nth(S, k) == CHOOSE j \in S : Cardinality({x \in S : x <= j}) = k

\* The attribute pairs the history shows instance `id` to have been fed, in
\* the order of the calls.
FedTo(t, id) ==
    LET at == {i \in 1..Len(t) : t[i].op = "attribute" /\ t[i].id = id}
    IN [k \in 1..Cardinality(at) |->
            <<t[Nth(at, k)].name, t[Nth(at, k)].value>>]

\* How many response() calls the history holds before place i.
ResponsesBefore(i) == Cardinality({j \in Calls("response") : j < i})

\* ------------------------------------------------------------------ claims

\* C1: when the input is k >= 0 well-formed requests, no handler method
\* reports an error and the transport does not fail, handle_connection
\* returns Ok(()) and the output is exactly the k frames
\* `action=` + serialize_response(decision_i) + `\n\n`, in request order;
\* a request without attribute lines has its frame too.
C1_ValidRequestsAnswered ==
    (Returned /\ ValidRequests(input) /\ ~HandlerFailed /\ ret.kind # "IoError")
        => /\ ret = RetOk
           /\ Len(Decisions) = NumRequests(input)
           /\ output = FramesOf(Decisions)

\* Two requests were answered, the first with an attribute, the second
\* without any.
C1_Witness ==
    /\ Returned
    /\ ValidRequests(input)
    /\ ret = RetOk
    /\ NumRequests(input) = 2
    /\ Len(FedTo(trace, 1)) = 1
    /\ FedTo(trace, 2) = <<>>
    /\ Len(output) > 0

\* The tag the wire format names for each variant.
TagOf(variant) ==
    CASE variant = "Ok" -> <<"O", "K">>
      [] variant = "Reject" -> <<"R", "E", "J", "E", "C", "T">>
      [] variant = "Defer" -> <<"D", "E", "F", "E", "R">>
      [] variant = "DeferIfReject" ->
            <<"D", "E", "F", "E", "R", "_", "I", "F", "_", "R", "E", "J", "E", "C", "T">>
      [] variant = "DeferIfPermit" ->
            <<"D", "E", "F", "E", "R", "_", "I", "F", "_", "P", "E", "R", "M", "I", "T">>
      [] variant = "Bcc" -> <<"B", "C", "C">>
      [] variant = "Discard" -> <<"D", "I", "S", "C", "A", "R", "D">>
      [] variant = "Dunno" -> <<"D", "U", "N", "N", "O">>
      [] variant = "Hold" -> <<"H", "O", "L", "D">>
      [] variant = "Redirect" -> <<"R", "E", "D", "I", "R", "E", "C", "T">>
      [] variant = "Info" -> <<"I", "N", "F", "O">>
      [] variant = "Warn" -> <<"W", "A", "R", "N">>

\* C2: serialize_response returns, for each of the 12 variants, the tag, then
\* one space and the payload when the payload is not empty, and the bare tag
\* (no trailing space, no newline) when it is empty or the variant has none.
C2_SerializeResponse ==
    /\ pc = "serialize" => ENABLED Serialize
    /\ pc = "write_resp" =>
        /\ pending.payload # <<>> =>
                encoded = TagOf(pending.variant) \o <<" ">> \o pending.payload
        /\ pending.payload = <<>> => encoded = TagOf(pending.variant)

\* A variant with a payload was encoded.
C2_Witness ==
    /\ pc = "write_resp"
    /\ pending.variant = "DeferIfPermit"
    /\ Len(pending.payload) = MaxPayload
    /\ Len(encoded) = 16 + MaxPayload

\* C3: the handler that gives the i-th response is the i-th instance built,
\* built after the (i-1)-th response, and was fed exactly the attributes of
\* the lines between the (i-1)-th and the i-th blank line, in input order;
\* every attribute goes to the instance of the request it lies in.
C3_FreshHandlerPerRequest ==
    /\ \A i \in Calls("response") :
        LET n == ResponsesBefore(i) + 1
        IN /\ trace[i].id = n
           /\ FedTo(trace, n) = RequestAttributes(input, n)
    /\ \A i \in Calls("attribute") : trace[i].id = ResponsesBefore(i) + 1
    /\ \A i \in Calls("new") : trace[i].id = ResponsesBefore(i) + 1
    /\ Cardinality(Calls("new")) = nhandlers
    /\ (nhandlers > 0 /\ ~handler.live) =>
            handler.attrs = RequestAttributes(input, handler.id)

\* The second instance gave its response and holds nothing of the first
\* request's attribute.
C3_Witness ==
    /\ Cardinality(Calls("response")) = 2
    /\ Len(FedTo(trace, 1)) = 1
    /\ handler.id = 2
    /\ ~handler.live
    /\ handler.attrs = <<>>

\* How many lines read_until has handed to the loop, the one in `buf`
\* included.
LinesRead ==
    Cardinality(Calls("attribute")) + Cardinality(Calls("response"))
        + (IF pc = "line" \/ ret.kind = "ProtocolError" THEN 1 ELSE 0)

\* The line in `buf` when read_until has returned it is the next line of
\* the input, terminator included.
LineAsRead ==
    (pc = "line" /\ buf # <<>>) => buf = LinesOf(input)[LinesRead]

NoEqIn(l) == \A i \in 1..Len(l) : l[i] # "="

\* C4: whenever the line read is not blank and holds no `=`,
\* handle_connection returns ProtocolError carrying exactly that line as
\* read, terminator included, whatever was served before.
C4_LineWithoutEq ==
    /\ []LineAsRead
    /\ [][(pc = "line" /\ buf # <<>> /\ buf # BlankLine /\ NoEqIn(buf))
            => (ret' = [kind |-> "ProtocolError", line |-> buf, err |-> ""]
                /\ pc' = "returned")]_vars

\* A line without `=` ended a connection that had answered a request.
C4_Witness ==
    /\ ret.kind = "ProtocolError"
    /\ NoEqIn(ret.line)
    /\ ret.line = <<"a", "\n">>
    /\ Len(Decisions) = 1

\* C5: whenever the line read starts with `=`, handle_connection returns
\* ProtocolError carrying exactly that line as read, and attribute() is not
\* called for it.
C5_LineWithEmptyName ==
    /\ []LineAsRead
    /\ [][(pc = "line" /\ buf # <<>> /\ buf[1] = "=")
            => (/\ ret' = [kind |-> "ProtocolError", line |-> buf, err |-> ""]
                /\ pc' = "returned"
                /\ trace' = trace
                /\ handler' = handler)]_vars

\* A line `=a\n` ended the connection.
C5_Witness ==
    /\ ret.kind = "ProtocolError"
    /\ ret.line = <<"=", "a", "\n">>
    /\ Calls("attribute") = {}

\* C6: when handle_connection returns ProtocolError, the output is exactly
\* the frames of the requests completed before the malformed line (nothing
\* when it lies in the first request), and nothing is written afterwards.
C6_NoResponseOnProtocolError ==
    /\ [](ret.kind = "ProtocolError" =>
            /\ output = FramesOf(Decisions)
            /\ Len(Decisions) =
                Cardinality({j \in BlankIndices(LinesOf(input)) : j < LinesRead}))
    /\ [][ret.kind = "ProtocolError" => (output' = output /\ trace' = trace)]_vars

\* A malformed line in the second request: the output is the first frame.
C6_Witness ==
    /\ ret.kind = "ProtocolError"
    /\ pc = "done"
    /\ Len(Decisions) = 1
    /\ handler.attrs # <<>>
    /\ output = FrameOf(Decisions[1])

\* C7: when attribute() returns Some(error), handle_connection returns
\* HandlerError(error) at once: that call is the last call on the handler
\* and on the socket (no read, no write), the output holds the frames of
\* the earlier requests only, and nothing of the reader, the line, the
\* output or the handler changes afterwards.
C7_AttributeErrorAborts ==
    /\ [](\A i \in Calls("attribute") :
            trace[i].err # "" =>
                /\ i = Len(trace)
                /\ ret = [kind |-> "HandlerError", line |-> <<>>,
                          err |-> trace[i].err]
                /\ output = FramesOf(Decisions)
                /\ output = Written(trace))
    /\ [][(trace # <<>> /\ trace[Len(trace)].op = "attribute"
                /\ trace[Len(trace)].err # "")
            => UNCHANGED <<inpos, rbuf, buf, output, handler, nhandlers,
                           trace, ret>>]_vars

\* attribute() reported e2 for the second request's attribute.
C7_Witness ==
    /\ trace # <<>>
    /\ trace[Len(trace)].op = "attribute"
    /\ trace[Len(trace)].err = "e2"
    /\ trace[Len(trace)].id = 2
    /\ ret.kind = "HandlerError"
    /\ inpos < Len(input)

\* C8: when response() returns Err(error), handle_connection returns
\* HandlerError(error) with no byte written for that request, no new handler
\* built and no further read: that call is the last call on the handler and
\* on the socket, and nothing of the reader, the line, the output or the
\* handler changes afterwards.
C8_ResponseErrorAborts ==
    /\ [](\A i \in Calls("response") :
            trace[i].err # "" =>
                /\ i = Len(trace)
                /\ ret = [kind |-> "HandlerError", line |-> <<>>,
                          err |-> trace[i].err]
                /\ output = FramesOf(Decisions)
                /\ output = Written(trace)
                /\ nhandlers = Cardinality(Calls("response")))
    /\ [][(trace # <<>> /\ trace[Len(trace)].op = "response"
                /\ trace[Len(trace)].err # "")
            => UNCHANGED <<inpos, rbuf, buf, output, handler, nhandlers,
                           trace, ret>>]_vars

\* response() reported e1 for the second request.
C8_Witness ==
    /\ trace # <<>>
    /\ trace[Len(trace)].op = "response"
    /\ trace[Len(trace)].err = "e1"
    /\ trace[Len(trace)].id = 2
    /\ Len(output) > 0
    /\ inpos < Len(input)

\* C9: when a line read returns zero bytes with no request in progress,
\* handle_connection returns Ok(()) and no byte is written then or later.
C9_CleanEndOfStream ==
    /\ [][(pc = "line" /\ buf = <<>> /\ handler.attrs = <<>>)
            => (ret' = [kind |-> "Ok", line |-> <<>>, err |-> ""]
                /\ output' = output)]_vars
    /\ [][ret.kind = "Ok" => (output' = output /\ trace' = trace)]_vars
    /\ [](ret.kind = "Ok" => (inpos = Len(input) /\ buf = <<>>))

\* The stream ended directly after a completed response.
C9_Witness ==
    /\ ret.kind = "Ok"
    /\ handler.attrs = <<>>
    /\ Len(Decisions) = 2
    /\ output = FramesOf(Decisions)

\* C10: handle_connection_response returns Ok with every byte written to
\* the socket exactly when handle_connection returns Ok(()); otherwise it
\* returns that same error, and no byte of the responses already written.
C10_HelperResult ==
    (ViaHelper /\ pc = "done") =>
        /\ hret.kind = "Ok" <=> ret.kind = "Ok"
        /\ ret.kind = "Ok" => (hret.bytes = Written(trace) /\ hret.bytes = output)
        /\ ret.kind # "Ok" =>
            /\ hret.kind = ret.kind
            /\ hret.line = ret.line
            /\ hret.err = ret.err
            /\ hret.bytes = <<>>

\* The helper returned an error after a response had been written.
C10_Witness ==
    /\ ViaHelper
    /\ pc = "done"
    /\ hret.kind = "HandlerError"
    /\ Len(output) > 0

\* The line of the input that the call at place i of the history was made
\* for: every line read leads to one attribute() or response() call.
LineOfCall(i) ==
    LinesOf(input)[Cardinality({j \in 1..i :
                        trace[j].op \in {"attribute", "response"}})]

\* A line without its terminator, when it has one.
Chomp(l) ==
    IF l # <<>> /\ l[Len(l)] = "\n" THEN SubSeq(l, 1, Len(l) - 1) ELSE l

\* C11: for every line accepted as an attribute, a last line without `\n`
\* included, the value handed to the handler is every byte after the first
\* `=` but a trailing `\n`: name + `=` + value is the line with at most its
\* terminator removed.
C11_ValueKeepsEveryByte ==
    \A i \in Calls("attribute") :
        trace[i].name \o <<"=">> \o trace[i].value = Chomp(LineOfCall(i))

\* The bytes of a line from its first `=` on.
FromFirstEq(l) == SubSeq(l, FirstEqOf(l), Len(l))

\* A line with a `=` that is not its first byte.
HasName(l) == l # <<>> /\ l[1] # "=" /\ ~NoEqIn(l)

\* C12 as stated: a line `name=\n` with a non-empty name and nothing between
\* the first `=` and the terminator ends the connection with ProtocolError
\* carrying the line, and is not handed to the handler.
C12_EmptyValueRefused ==
    [][(pc = "line" /\ HasName(buf) /\ FromFirstEq(buf) = <<"=", "\n">>)
        => (/\ ret' = [kind |-> "ProtocolError", line |-> buf, err |-> ""]
            /\ trace' = trace)]_vars

\* C12 as amended: a line with a non-empty name that ends with its first
\* `=` (fewer than 2 bytes from the `=` on: the stream ended there, without
\* a terminator) ends the connection with ProtocolError carrying the line,
\* and is not handed to the handler.
C12_TruncatedLineRefused ==
    [][(pc = "line" /\ HasName(buf) /\ Len(FromFirstEq(buf)) < 2)
        => (/\ ret' = [kind |-> "ProtocolError", line |-> buf, err |-> ""]
            /\ pc' = "returned"
            /\ trace' = trace
            /\ handler' = handler)]_vars

\* The stream ended after `a=`, in the second request.
C12_Witness ==
    /\ ret.kind = "ProtocolError"
    /\ ret.line = <<"a", "=">>
    /\ Len(Decisions) = 1
    /\ Calls("attribute") = {}

\* C13: a terminated line `name=\n` with a non-empty name is handed to the
\* handler as the pair (name, empty value), and the connection goes on with
\* the next line unless the handler reports an error.
C13_EmptyValueAccepted ==
    [][(pc = "line" /\ HasName(buf) /\ FromFirstEq(buf) = <<"=", "\n">>)
        => (/\ Len(trace') = Len(trace) + 1
            /\ trace'[Len(trace')].op = "attribute"
            /\ trace'[Len(trace')].id = handler.id
            /\ trace'[Len(trace')].name = SubSeq(buf, 1, Len(buf) - 2)
            /\ trace'[Len(trace')].value = <<>>
            /\ trace'[Len(trace')].err = "" =>
                    (pc' = "read" /\ ret' = ret /\ output' = output))]_vars

\* Two attributes without a value were taken and the request was answered.
C13_Witness ==
    /\ Len(FedTo(trace, 1)) = 2
    /\ FedTo(trace, 1)[1] = <<(<<"a">>), <<>>>>
    /\ FedTo(trace, 1)[2] = <<(<<"a">>), <<>>>>
    /\ Len(Decisions) = 1
    /\ ret.kind = "Ok"

\* How many requests of the lines ls end before the last of the first c
\* bytes: with c bytes taken, that many requests are wholly taken and a byte
\* of a later request is taken too.
RECURSIVE RequestsEndedBefore(_, _)
RequestsEndedBefore(ls, c) ==
    IF ls = <<>> \/ c <= Len(ls[1]) THEN 0
    ELSE (IF ls[1] = BlankLine THEN 1 ELSE 0)
            + RequestsEndedBefore(Tail(ls), c - Len(ls[1]))

\* How many responses have been flushed.
Flushed == Cardinality({i \in Calls("flush") : trace[i].err = ""})

\* The bytes the loop has taken out of its BufReader.
Consumed == inpos - Len(rbuf)

\* C14 as stated: the engine has never taken from the input stream a byte of
\* request N+1 before the response to request N is written and flushed.
C14_NoReadAhead ==
    Flushed >= RequestsEndedBefore(LinesOf(input), inpos)

\* C14 as amended: the loop has never taken out of its BufReader a byte of
\* request N+1 before the response to request N is written and flushed (the
\* BufReader itself takes from the stream whatever one read returns, bytes
\* of later requests included).
C14_NoDecodeAhead ==
    /\ Flushed >= RequestsEndedBefore(LinesOf(input), Consumed)
    /\ Consumed >= 0

\* The second request's line is being decoded after the first response was
\* flushed, and both requests were in the BufReader at once.
C14_Witness ==
    /\ RequestsEndedBefore(LinesOf(input), Consumed) = 1
    /\ Flushed = 1
    /\ pc = "line"
    /\ \E i \in Calls("read") :
            /\ ResponsesBefore(i) = 0
            /\ RequestsEndedBefore(LinesOf(input), Len(trace[i].value)) = 1

\* C15: between the response() of request N and the construction of the
\* handler of request N+1 lie exactly the writes of `action=`, of the encoded
\* decision and of `\n\n`, and the flush, all completed; a line is read only
\* with every response flushed and a live handler; an attribute line causes
\* no write, no flush and no construction.
C15_ResponseBeforeNextRequest ==
    /\ [](\A i \in Calls("new") :
            trace[i].id > 1 =>
                /\ i > 5
                /\ trace[i - 5].op = "response"
                /\ trace[i - 5].err = ""
                /\ trace[i - 5].id = trace[i].id - 1
                /\ \A k \in 1..4 : trace[i - k].err = ""
                /\ trace[i - 4].op = "write"
                /\ trace[i - 4].value = <<"a", "c", "t", "i", "o", "n", "=">>
                /\ trace[i - 3].op = "write"
                /\ trace[i - 3].value = serialize_response(trace[i - 5].resp)
                /\ trace[i - 2].op = "write"
                /\ trace[i - 2].value = <<"\n", "\n">>
                /\ trace[i - 1].op = "flush")
    /\ [](pc \in {"read", "line"} =>
            /\ handler.live
            /\ handler.id = Cardinality(Calls("response")) + 1
            /\ Flushed = Cardinality(Calls("response")))
    /\ [][(pc = "line" /\ buf # <<>> /\ buf # BlankLine /\ trace' # trace)
            => (/\ Len(trace') = Len(trace) + 1
                /\ trace'[Len(trace')].op = "attribute"
                /\ output' = output
                /\ nhandlers' = nhandlers
                /\ handler'.id = handler.id)]_vars

\* An attribute line was taken by the second handler, built after the first
\* response was flushed.
C15_Witness ==
    /\ Flushed = 1
    /\ Cardinality(Calls("new")) = 2
    /\ FedTo(trace, 2) # <<>>
    /\ FedTo(trace, 1) # <<>>

\* How often response() was called on instance `id`.
Finalized(id) ==
    Cardinality({i \in Calls("response") : trace[i].id = id})

EqCount(l) == Cardinality({i \in 1..Len(l) : l[i] = "="})

\* C17: a terminated line with a non-empty name and several `=` is split at
\* its first `=` only: the name handed to the handler holds no `=`, every
\* later `=` is in the value, and name + `=` + value + `\n` is the line.
C17_SplitAtFirstEq ==
    [][(/\ pc = "line"
        /\ HasName(buf)
        /\ buf[Len(buf)] = "\n"
        /\ EqCount(buf) >= 2)
        => (/\ Len(trace') = Len(trace) + 1
            /\ LET e == trace'[Len(trace')]
               IN /\ e.op = "attribute"
                  /\ NoEqIn(e.name)
                  /\ EqCount(e.value) = EqCount(buf) - 1
                  /\ e.name \o <<"=">> \o e.value \o <<"\n">> = buf)]_vars

\* The line `a==a\n` was handed over as (a, =a).
C17_Witness ==
    \E i \in Calls("attribute") :
        /\ trace[i].name = <<"a">>
        /\ trace[i].value = <<"=", "a">>
        /\ trace[i].err = ""

\* The places of the history where a call on the socket failed.
SocketFailures ==
    {i \in 1..Len(trace) :
        trace[i].op \in {"read", "write", "flush"} /\ trace[i].err # ""}

\* C18 as stated: a failed read, write or flush is the last thing that
\* happened and handle_connection has returned Err(IoError) carrying it; the
\* bytes written before it are in the output.
C18_IoFailureReturnsAtOnce ==
    \A i \in SocketFailures :
        /\ i = Len(trace)
        /\ ret = IoError(trace[i].err)
        /\ output = Written(trace)

\* C18 as amended: a read or a write that reports Interrupted is called again
\* and handle_connection goes on; any other failed read or write, and any
\* failed flush, is the last thing that happened and handle_connection has
\* returned Err(IoError) carrying it, the bytes written before it still in
\* the output.
C18_IoFailureReturnsUnlessInterrupted ==
    \A i \in SocketFailures :
        IF trace[i].err = "interrupted" /\ trace[i].op # "flush"
            THEN /\ trace[i].value = <<>>
                 /\ IF i = Len(trace)
                        THEN ret = Running
                        ELSE trace[i + 1].op = trace[i].op
            ELSE /\ i = Len(trace)
                 /\ ret = IoError(trace[i].err)
                 /\ output = Written(trace)

\* A read was interrupted and called again, a response was begun, and the
\* write of its terminator failed after one byte: IoError, `action=REJECT\n`
\* left in the output.
C18_Witness ==
    /\ ret = IoError("io")
    /\ \E i \in Calls("read") : trace[i].err = "interrupted"
    /\ trace[Len(trace)].op = "write"
    /\ trace[Len(trace)].value = <<"\n">>
    /\ Len(output) > Len(ActionPrefix)

\* The lines read_until has handed to the loop so far, each of them one
\* iteration that did not end at the end of the stream.
Iterations ==
    Cardinality(Calls("attribute")) + Cardinality(Calls("response"))
        + (IF (pc = "line" /\ buf # <<>>) \/ ret.kind = "ProtocolError"
            THEN 1 ELSE 0)

\* C19: handle_connection returns at last; an iteration whose read_until
\* took no byte out of the reader returns, so that there are never more
\* iterations than bytes consumed; the call ends with one of Ok(()), IoError,
\* ProtocolError and HandlerError, and after that neither the result, the
\* output, the input position nor the history of calls changes.
C19_Terminates ==
    /\ <>Returned
    /\ [][(pc = "line" /\ buf = <<>>) => Returned']_vars
    /\ [](Iterations <= Consumed)
    /\ [](Returned <=> pc \in {"returned", "done"})
    /\ [](ret.kind \in {"Running", "Ok", "IoError", "ProtocolError",
                        "HandlerError"})
    /\ [][Returned =>
            /\ ret' = ret
            /\ output' = output
            /\ inpos' = inpos
            /\ handler' = handler
            /\ trace' = trace]_vars

\* A connection that went through two iterations, an attribute line and a
\* blank line, and then met the end of the stream.
C19_Witness ==
    /\ ret.kind = "Ok"
    /\ Iterations = 2
    /\ Consumed = Len(input)
    /\ Calls("attribute") # {}
    /\ Calls("flush") # {}

\* C20: when read_until meets the end of the stream while the handler holds
\* attributes of a request that no blank line ended, handle_connection
\* returns Ok(()) without a call on the handler or the socket; once it has
\* returned Ok(()) that handler was never asked for its response, and the
\* output is one frame for each blank line read, as it is whenever the loop
\* is about to read a line.
C20_UnterminatedRequestDropped ==
    /\ [][(pc = "line" /\ buf = <<>> /\ handler.attrs # <<>>)
            => (ret' = RetOk /\ trace' = trace /\ output' = output)]_vars
    /\ []((ret.kind = "Ok" \/ pc = "read") =>
            /\ Finalized(handler.id) = 0
            /\ output = FramesOf(Decisions)
            /\ Len(Decisions) = Cardinality(Calls("response")))
    /\ [](ret.kind = "Ok" =>
            Cardinality(Calls("response")) = NumRequests(input))

\* The input `\na=\n`: one request answered, then an attribute line and the
\* end of the stream; Ok(()) with one frame in the output.
C20_Witness ==
    /\ ret.kind = "Ok"
    /\ handler.attrs # <<>>
    /\ Len(Decisions) = 1
    /\ output = FramesOf(Decisions)
    /\ input[Len(input)] = "\n"

====
